---- MODULE Spec2Model ----
(***************************************************************************)
(* Prophecy agent: the resolution workflow (researcher -> judge ->         *)
(* executor), its HTTP triggers, the ledger calls of SolanaAgent and the   *)
(* reward distribution, as a state machine.                                *)
(*                                                                         *)
(* One action is one stretch of handler code between two awaits: Node.js   *)
(* runs such a stretch atomically, and other requests interleave only at   *)
(* the awaits.                                                             *)
(***************************************************************************)
EXTENDS Integers, Sequences, FiniteSets, TLC

VARIABLES
    chain,          \* ledger: market account by address (status, outcome, digest)
    stakes,         \* ledger: CredStake accounts by market address
    program,        \* SolanaAgent.program is loaded (not null)
    activeMarkets,  \* graph.ts activeMarkets: tracked market by market id
    runs,           \* the agentApp.invoke calls, by order of start
    scheduledResolutions,   \* graph.ts scheduledResolutions: the countdown timer by market id
    timers,         \* the setTimeout timers of POST /schedule-resolution
    reconsiderations,  \* reconsideration.ts: the processReconsideration calls, by order of start
    reconsiderationLogs,  \* reconsideration.ts reconsiderationLogs: the array the module variable points to
    logStore   \* the log history, the per-market log views and the market being resolved

vars == <<chain, stakes, program, activeMarkets, runs, scheduledResolutions, timers, reconsiderations, reconsiderationLogs, logStore>>

-----------------------------------------------------------------------------
(* Bounds of the model *)

\* number of resolution runs started (POST /resolve and fired timers together)
MaxRuns == 2
\* number of CredStake accounts of one market
MaxStakes == 2
\* number of POST /schedule-resolution requests
MaxSchedules == 1
\* number of POST /schedule-resolution requests in OverlapSpec
MaxOverlapping == 2
\* number of POST /reconsider requests
MaxRecons == 2
\* number of evidence items submitted for one market
MaxEvidence == 2

(* Program constants *)

\* shouldContinue: state.iterations < 3
MaxIterations == 3
\* distributeAllRewards: stake.amount * 2
RewardFactor == 2

-----------------------------------------------------------------------------
(* Domains *)

Markets == {"m1", "m2"}
\* a market id of more than 32 bytes, which is too long for a program address seed
LongMarketId == "m-of-more-than-32-bytes"
MarketIds == Markets \cup {LongMarketId}
Users == {"u1", "u2", "u3"}
Amounts == {1, 3}
RunIds == 1..MaxRuns
ReconIds == 1..MaxRecons
TimerIds == 1..MaxOverlapping

\* SolanaAgent.findMarketPda: the program address derived from the market id;
\* "invalid" stands for findProgramAddressSync throwing on a seed too long
findMarketPda(marketId) ==
    IF marketId = "m1" THEN "pda1"
    ELSE IF marketId = "m2" THEN "pda2"
    ELSE "invalid"

MarketAddrs == {findMarketPda(m) : m \in Markets}
\* what a caller may send as marketPda: nothing, a market account, a valid key
\* that is no market account, a string that is no public key
ProvidedPdas == {""} \cup MarketAddrs \cup {"other", "invalid"}

NoCid == <<>>
NoSig == ""
Unset == -1

-----------------------------------------------------------------------------
(* The generation replies the nodes parse *)

\* a field the JSON reply does not carry
Undefined == "<undefined>"
\* a field that is no string (a number, an object)
NotAString == "<number>"

\* judgeNode: what generateContent and JSON.parse give the node
JudgeReplies ==
    {[kind |-> k, decision |-> Undefined] : k \in {"error", "unparseable", "null"}}
    \cup {[kind |-> "json", decision |-> d] :
            d \in {"YES", "NO", "UNCERTAIN", "yes", "no", "uncertain", "maybe",
                   "", Undefined, NotAString}}

\* String.prototype.toUpperCase on the strings above
toUpperCase(s) ==
    CASE s = "yes" -> "YES"
      [] s = "no" -> "NO"
      [] s = "uncertain" -> "UNCERTAIN"
      [] s = "maybe" -> "MAYBE"
      [] s = "overturn" -> "OVERTURN"
      [] OTHER -> s

\* judgeNode: the JSON reply makes the try block throw (judgment is null, or
\* decision has no toUpperCase)
JudgeThrows(reply) ==
    \/ reply.kind \in {"error", "unparseable", "null"}
    \/ reply.decision = NotAString

\* judgeNode: judgment.decision?.toUpperCase() || 'UNCERTAIN', and the catch block
JudgeDecision(reply) ==
    IF JudgeThrows(reply) THEN "UNCERTAIN"
    ELSE IF reply.decision = Undefined \/ toUpperCase(reply.decision) = ""
         THEN "UNCERTAIN"
         ELSE toUpperCase(reply.decision)

\* a router that lets the run research once more at the limit
shouldContinueAtLimit(decision, iterations) ==
    IF decision = "UNCERTAIN" /\ iterations <= MaxIterations
    THEN "researcher"
    ELSE "executor"

\* shouldContinue: the router after the judge
shouldContinue(decision, iterations) ==
    IF decision = "UNCERTAIN" /\ iterations < MaxIterations
    THEN "researcher"
    ELSE "executor"

\* researcherNode: what generateContent and JSON.parse give the node; facts and
\* confidences are the parsed fields (hasFacts, hasConf: the field is present)
ResearchReplies ==
    {[kind |-> k, hasFacts |-> FALSE, facts |-> <<>>, hasConf |-> FALSE, conf |-> <<>>] :
        k \in {"error", "unparseable"}}
    \cup {[kind |-> "json", hasFacts |-> TRUE, facts |-> <<"f1">>,
           hasConf |-> TRUE, conf |-> <<90>>],
          [kind |-> "json", hasFacts |-> TRUE, facts |-> <<"f1">>,
           hasConf |-> FALSE, conf |-> <<>>],
          [kind |-> "json", hasFacts |-> TRUE, facts |-> <<"f1", "f2">>,
           hasConf |-> TRUE, conf |-> <<90>>],
          [kind |-> "json", hasFacts |-> TRUE, facts |-> <<"f1">>,
           hasConf |-> TRUE, conf |-> <<150>>]}

UnableToVerify == "Unable to verify facts due to agent error."

\* a researcher whose catch block returns no fact at all
ResearchFactsNoneOnError(reply) ==
    IF reply.kind # "json" THEN <<>>
    ELSE IF reply.hasFacts THEN reply.facts ELSE <<>>

\* researcherNode: parsed.facts || [] ; the catch block gives the single fact
ResearchFacts(reply) ==
    IF reply.kind # "json" THEN <<UnableToVerify>>
    ELSE IF reply.hasFacts THEN reply.facts ELSE <<>>

\* researcherNode: parsed.confidences || facts.map(() => 70)
ResearchConfidences(reply) ==
    IF reply.kind # "json" THEN <<0>>
    ELSE IF reply.hasConf THEN reply.conf
         ELSE [i \in 1..Len(ResearchFacts(reply)) |-> 70]

-----------------------------------------------------------------------------
(* The ledger program, as its tests and its callers show it *)

\* resolve_market: the error of the instruction, "none" when it commits
LedgerResolveError(addr, authorized) ==
    IF addr \notin MarketAddrs THEN "AccountNotInitialized"
    ELSE IF ~authorized THEN "Unauthorized"
    ELSE IF chain[addr].status # "Open" THEN "MarketNotOpen"
    ELSE "none"

\* resolve_market: the market account after a committed resolve
LedgerResolved(outcome, digest) ==
    [status |-> "Resolved", outcome |-> outcome, digest |-> digest]

-----------------------------------------------------------------------------
(* Transcript anchoring (ipfs.ts) *)

\* the bundle pinTranscript serialises
TranscriptBundle(run) == <<run.marketId, run.marketPda, run.decision, run.facts>>

\* what a pin would hand its caller if storeBlob's exception escaped it
Thrown == <<"thrown">>

\* a pin without the try around storeBlob
pinTranscriptRethrows(bundle, store) ==
    IF store = "stored" THEN <<"cid", bundle>>
    ELSE IF store = "noclient" THEN <<"bafkreig", bundle>>
    ELSE Thrown

\* a fallback that hashes the content only when there is no client and returns
\* a fixed placeholder when storeBlob throws
pinTranscriptPlaceholderOnThrow(bundle, store) ==
    IF store = "stored" THEN <<"cid", bundle>>
    ELSE IF store = "noclient" THEN <<"bafkreig", bundle>>
    ELSE <<"bafkreig", <<"unpinned">>>>

\* pinTranscript: the CID of the store, or the mock CID made of the content hash
\* when there is no client or storeBlob throws
pinTranscript(bundle, store) ==
    IF store = "stored" THEN <<"cid", bundle>> ELSE <<"bafkreig", bundle>>

\* a digest of the pinned content instead of the CID string
cidToBytes32OfContent(cid) == <<"sha256", cid[2]>>

\* cidToBytes32: sha256 of the CID string
cidToBytes32(cid) == <<"sha256", cid>>

\* createProofNFTMetadata: the metadata pinNFTMetadata serialises
NFTMetadata(run) == <<run.marketId, run.decision, run.transcriptCid>>

\* pinNFTMetadata: the CID of the store, or the mock CID made of the content hash
\* when there is no client or storeBlob throws
pinNFTMetadata(metadata, store) ==
    IF store = "stored" THEN <<"cid", metadata>> ELSE <<"bafkreim", metadata>>

StoreOutcomes == {"stored", "noclient", "throws"}

-----------------------------------------------------------------------------
(* Runs of the workflow *)

\* a run slot before agentApp.invoke
IdleRun ==
    [pc |-> "idle", source |-> "", marketId |-> "", marketPda |-> "",
     evidenceUrls |-> <<>>, facts |-> <<>>, factConfidences |-> <<>>,
     decision |-> "null", iterations |-> 0,
     \* what generateContent and JSON.parse gave the last researcher, judge pass
     research |-> <<>>, judgment |-> <<>>,
     \* judgeNode's local factsWithConfidence: the confidences in the prompt of
     \* the judge pass, until the next node that runs is the researcher
     promptConfidences |-> <<>>,
     ipfsTranscriptCid |-> NoCid, transactionSignature |-> NoSig,
     \* locals of executorNode and distributeAllRewards
     transcriptCid |-> NoCid, ipfsHash |-> <<>>, pinOutcome |-> "none",
     metaOutcome |-> "none",
     generation |-> [state |-> "idle", attempt |-> 0, responses |-> <<>>],
     resolveAddr |-> "", resolveOutcome |-> Unset, resolveDigest |-> <<>>,
     resolveError |-> "", resolveResult |-> "none",
     distAddr |-> "", snapshot |-> <<>>, winners |-> <<>>, distributed |-> 0,
     failed |-> 0, distResult |-> <<>>,
     \* what the run has done so far
     nResearch |-> 0, nJudge |-> 0, nExecutor |-> 0, nPin |-> 0, nResolve |-> 0,
     nQuery |-> 0, payCalls |-> <<>>, logs |-> {}]

\* agentApp.invoke: the initial state the triggers pass
InitialState(source, marketId, marketPda, evidenceUrls) ==
    [IdleRun EXCEPT !.pc = "researcher", !.source = source, !.marketId = marketId,
                    !.marketPda = marketPda, !.evidenceUrls = evidenceUrls]

Started == {r \in RunIds : runs[r].pc # "idle"}
\* the runs between agentApp.invoke and its return
InFlight == {r \in RunIds : runs[r].pc \notin {"idle", "fetch", "nomarket", "done", "error"}}
\* the slot of the next run
NewRun == Cardinality(Started) + 1

\* addGlobalLog: an entry of the run, as speaker, message and sentiment
AddLog(run, entries) == [run EXCEPT !.logs = @ \cup entries]

\* researcherNode, from the reply of generateContent to the returned facts
researcherNode(run, reply) ==
    LET out == [run EXCEPT !.research = <<reply>>,
                           !.promptConfidences = <<>>,
                           !.facts = ResearchFacts(reply),
                           !.factConfidences = ResearchConfidences(reply),
                           !.nResearch = @ + 1,
                           !.pc = "judge"]
    IN  IF reply.kind = "json"
        THEN AddLog(out, {<<"Researcher", "found facts", "Positive">>})
        ELSE AddLog(out, {<<"System", "Research Error", "Negative">>})

\* a judge whose catch block leaves the iteration count as it was
judgeNodeKeepingCount(run, reply) ==
    LET decision == JudgeDecision(reply)
        iterations == IF JudgeThrows(reply) THEN run.iterations ELSE run.iterations + 1
        next == shouldContinue(decision, iterations)
    IN  [run EXCEPT !.decision = decision, !.iterations = iterations,
                    !.nJudge = @ + 1, !.pc = next]

\* judgeNode: the confidence the prompt shows for each fact,
\* state.factConfidences[i] || 70
PromptConfidences(facts, factConfidences) ==
    [i \in 1..Len(facts) |->
        IF i <= Len(factConfidences) /\ factConfidences[i] # 0
        THEN factConfidences[i]
        ELSE 70]

\* judgeNode, from the reply of generateContent to the router's choice
judgeNode(run, reply) ==
    LET decision == JudgeDecision(reply)
        iterations == run.iterations + 1
        next == shouldContinue(decision, iterations)
        out == [run EXCEPT !.judgment = <<reply>>,
                           !.promptConfidences =
                               PromptConfidences(run.facts, run.factConfidences),
                           !.decision = decision,
                           !.iterations = iterations,
                           !.nJudge = @ + 1,
                           !.pc = next]
        verdict == IF JudgeThrows(reply)
                   THEN {<<"Judge", "Error rendering verdict", "Negative">>}
                   ELSE {<<"Judge", "VERDICT",
                           IF decision = "UNCERTAIN" THEN "Neutral" ELSE "Positive">>}
        again == IF next = "researcher"
                 THEN {<<"System", "Re-running research", "Neutral">>}
                 ELSE {}
    IN  AddLog(out, verdict \cup again)

Research(r, replies) ==
    /\ runs[r].pc = "researcher"
    /\ \E reply \in replies :
          runs' = [runs EXCEPT ![r] = researcherNode(runs[r], reply)]
    /\ UNCHANGED <<chain, stakes, program, activeMarkets, scheduledResolutions, timers, reconsiderations, reconsiderationLogs, logStore>>

\* generateContent: retries = 3
Retries == 3

\* what one fetch of generateContent meets: a response with candidates, status
\* 429, another status that is not ok, or an ok response without candidates
FetchResponses == {"ok", "429", "notok", "nocandidates"}

\* a client whose catch rethrows at once instead of sleeping for the next pass
generateContentNoRetry(generation, response) ==
    LET seen == [generation EXCEPT !.responses = Append(@, response)]
    IN  IF response = "ok" THEN [seen EXCEPT !.state = "returned"]
        ELSE IF response = "429"
             THEN IF generation.attempt + 1 < Retries
                  THEN [seen EXCEPT !.attempt = @ + 1]
                  ELSE [seen EXCEPT !.attempt = @ + 1, !.state = "threw"]
             ELSE [seen EXCEPT !.state = "threw"]

\* generateContent, one pass of the for loop: on 429 sleep and continue, which
\* runs attempt++ and leaves the loop for the final throw once attempt reaches
\* retries; any other failure is thrown into the catch, which rethrows on the
\* last attempt and otherwise sleeps before the next pass
generateContent(generation, response) ==
    LET seen == [generation EXCEPT !.responses = Append(@, response)]
    IN  IF response = "ok" THEN [seen EXCEPT !.state = "returned"]
        ELSE IF response = "429"
             THEN IF generation.attempt + 1 < Retries
                  THEN [seen EXCEPT !.attempt = @ + 1]
                  ELSE [seen EXCEPT !.attempt = @ + 1, !.state = "threw"]
             ELSE IF generation.attempt = Retries - 1
                  THEN [seen EXCEPT !.state = "threw"]
                  ELSE [seen EXCEPT !.attempt = @ + 1]

\* researcherNode calls generateContent: the first sleep, then the loop starts
GenerateBegin(r) ==
    /\ runs[r].pc = "researcher"
    /\ runs[r].generation.state = "idle"
    /\ runs' = [runs EXCEPT ![r].generation =
                   [state |-> "fetching", attempt |-> 0, responses |-> <<>>]]
    /\ UNCHANGED <<chain, stakes, program, activeMarkets, scheduledResolutions, timers, reconsiderations, reconsiderationLogs, logStore>>

\* generateContent: one fetch and what the loop does with its response
GenerateFetch(r, responses) ==
    /\ runs[r].pc = "researcher"
    /\ runs[r].generation.state = "fetching"
    /\ \E response \in responses :
          runs' = [runs EXCEPT ![r].generation =
                      generateContent(runs[r].generation, response)]
    /\ UNCHANGED <<chain, stakes, program, activeMarkets, scheduledResolutions, timers, reconsiderations, reconsiderationLogs, logStore>>

\* researcherNode after generateContent returned a text or threw
ResearchAfterGeneration(r, replies) ==
    /\ runs[r].generation.state \in {"returned", "threw"}
    /\ Research(r, {reply \in replies :
                       reply.kind = "error" <=> runs[r].generation.state = "threw"})

Judge(r, replies) ==
    /\ runs[r].pc = "judge"
    /\ \E reply \in replies :
          runs' = [runs EXCEPT ![r] = judgeNode(runs[r], reply)]
    /\ UNCHANGED <<chain, stakes, program, activeMarkets, scheduledResolutions, timers, reconsiderations, reconsiderationLogs, logStore>>

-----------------------------------------------------------------------------
(* executorNode *)

\* an executor that settles on any decision it is given
IsTerminalDecisionTruthy(decision) == decision # "null"

\* executorNode: decision === 'YES' || decision === 'NO'
IsTerminalDecision(decision) == decision = "YES" \/ decision = "NO"

\* executorNode: decision === 'YES' ? 1 : 0
Outcome(decision) == IF decision = "YES" THEN 1 ELSE 0

\* executorNode: the address passed to resolveMarket,
\* new PublicKey(marketPda || solanaAgent.findMarketPda(marketId)[0])
ResolveAddress(run) ==
    IF run.marketPda # "" THEN run.marketPda ELSE findMarketPda(run.marketId)

\* executorNode: the address whose stakes are queried and paid,
\* PublicKey.findProgramAddressSync(['market', state.marketId], programId)
DistributionAddress(run) == findMarketPda(run.marketId)

\* an executor that returns the signature without the transcript CID
ExecutorReturnSignatureOnly(run, signature) ==
    [run EXCEPT !.transactionSignature = signature, !.pc = "done"]

\* executorNode: the return value after a successful resolve
ExecutorReturn(run, signature) ==
    [run EXCEPT !.ipfsTranscriptCid = run.transcriptCid,
                !.transactionSignature = signature,
                !.pc = "done"]

\* executorNode up to the first await: the opening log, the branch on the
\* decision, and for an undecided run the whole node
ExecutorEnter(r) ==
    /\ runs[r].pc = "executor"
    /\ LET run == AddLog([runs[r] EXCEPT !.nExecutor = @ + 1],
                         {<<"Executor", "Processing resolution", "Neutral">>})
       IN  IF IsTerminalDecision(run.decision)
           THEN runs' = [runs EXCEPT ![r] =
                    AddLog([run EXCEPT !.pc = "pin"],
                           {<<"Executor", "Pinning transcript", "Neutral">>})]
           ELSE runs' = [runs EXCEPT ![r] =
                    AddLog([run EXCEPT !.pc = "done"],
                           {<<"Executor", "Market remains UNRESOLVED", "Neutral">>})]
    /\ UNCHANGED <<chain, stakes, program, activeMarkets, scheduledResolutions, timers, reconsiderations, reconsiderationLogs, logStore>>

\* executorNode: await pinTranscript, cidToBytes32, the log, then
\* createProofNFTMetadata up to await pinNFTMetadata
PinTranscript(r, stores) ==
    /\ runs[r].pc = "pin"
    /\ \E store \in stores :
          LET cid == pinTranscript(TranscriptBundle(runs[r]), store)
          IN  IF cid = Thrown
              THEN runs' = [runs EXCEPT ![r] =
                       [runs[r] EXCEPT !.pinOutcome = store, !.nPin = @ + 1,
                                       !.pc = "error"]]
              ELSE runs' = [runs EXCEPT ![r] =
                       AddLog([runs[r] EXCEPT
                                 !.transcriptCid = cid,
                                 !.ipfsHash = cidToBytes32(cid),
                                 !.pinOutcome = store,
                                 !.nPin = @ + 1,
                                 !.pc = "meta"],
                              {<<"Executor", "Transcript pinned", "Positive">>})]
    /\ UNCHANGED <<chain, stakes, program, activeMarkets, scheduledResolutions, timers, reconsiderations, reconsiderationLogs, logStore>>

\* executorNode: pinNFTMetadata returns, the log, then new PublicKey(...) and
\* the call of resolveMarket; a marketPda that is no public key makes
\* new PublicKey throw out of the node
PinNFTMetadata(r, stores) ==
    /\ runs[r].pc = "meta"
    /\ \E store \in stores :
          LET cid == pinNFTMetadata(NFTMetadata(runs[r]), store)
              run == AddLog([runs[r] EXCEPT !.metaOutcome = store],
                            {<<"Executor", "NFT metadata pinned", "Positive">>})
          IN  IF cid = Thrown \/ ResolveAddress(run) = "invalid"
              THEN runs' = [runs EXCEPT ![r] =
                       [runs[r] EXCEPT !.metaOutcome = store, !.pc = "error"]]
              ELSE runs' = [runs EXCEPT ![r] =
                       [run EXCEPT !.resolveAddr = ResolveAddress(run),
                                   !.pc = "resolve"]]
    /\ UNCHANGED <<chain, stakes, program, activeMarkets, scheduledResolutions, timers, reconsiderations, reconsiderationLogs, logStore>>

\* what the RPC of one resolveMarket call meets: the transaction goes through the
\* ledger's checks, the agent key is not the executor authority, the RPC fails
\* before the transaction lands, or logTransaction throws after it landed
RpcOutcomes == {"ok", "Unauthorized", "NetworkError", "AuditLogError"}

\* SolanaAgent.resolveMarket: the transaction commits on the ledger
ResolveCommits(addr, rpc) ==
    /\ program
    /\ rpc # "NetworkError"
    /\ LedgerResolveError(addr, rpc # "Unauthorized") = "none"

\* a resolveMarket that takes only its own failures for errors, not the ledger's
ResolveErrorNotLedger(addr, rpc) ==
    IF program /\ rpc = "NetworkError" THEN "NetworkError"
    ELSE IF rpc = "AuditLogError" THEN "AuditLogError"
    ELSE "none"

\* SolanaAgent.resolveMarket: the error its catch block gets, "none" when the try
\* block runs through. With the program loaded the rpc() and logTransaction can
\* throw, without it (no IDL) logTransaction alone
ResolveError(addr, rpc) ==
    IF program /\ rpc = "NetworkError" THEN "NetworkError"
    ELSE IF program /\ LedgerResolveError(addr, rpc # "Unauthorized") # "none"
         THEN LedgerResolveError(addr, rpc # "Unauthorized")
    ELSE IF rpc = "AuditLogError" THEN "AuditLogError"
    ELSE "none"

\* a resolveMarket whose catch block reports success
ResolveSuccessAlways(addr, rpc) == TRUE

\* SolanaAgent.resolveMarket: result.success
ResolveSuccess(addr, rpc) == ResolveError(addr, rpc) = "none"

\* SolanaAgent.resolveMarket: result.signature of a successful call
ResolveSignature == IF program THEN "tx" ELSE "sim"

\* an executor without the try block around the distribution
DistributionThrewUncaught(run) == [run EXCEPT !.pc = "error"]

\* executorNode: the catch block around the distribution (deriving the address
\* threw), then the return after a successful resolve
DistributionThrew(run) ==
    AddLog(ExecutorReturn(run, run.resolveResult),
           {<<"Executor", "Reward distribution error", "Negative">>})

\* executorNode: await solanaAgent.resolveMarket returns; on success the two logs
\* and the call of distributeAllRewards, else the error log and return {}
ResolveMarket(r, rpcs) ==
    /\ runs[r].pc = "resolve"
    /\ \E rpc \in rpcs :
        LET run == runs[r]
            addr == run.resolveAddr
            outcome == Outcome(run.decision)
            called == [run EXCEPT !.nResolve = @ + 1,
                                  !.resolveOutcome = outcome,
                                  !.resolveDigest = run.ipfsHash,
                                  !.resolveError = ResolveError(addr, rpc)]
        IN  /\ chain' = IF ResolveCommits(addr, rpc)
                        THEN [chain EXCEPT ![addr] =
                                LedgerResolved(outcome, run.ipfsHash)]
                        ELSE chain
            /\ IF ResolveSuccess(addr, rpc)
               THEN runs' = [runs EXCEPT ![r] =
                        LET resolved ==
                                AddLog([called EXCEPT !.resolveResult = ResolveSignature,
                                                      !.distAddr = DistributionAddress(run),
                                                      !.pc = "query"],
                                       {<<"Executor", "MARKET RESOLVED ON-CHAIN", "Positive">>,
                                        <<"Executor", "Distributing rewards", "Positive">>})
                        IN  IF resolved.distAddr = "invalid"
                            THEN DistributionThrew(resolved)
                            ELSE resolved]
               ELSE runs' = [runs EXCEPT ![r] =
                        AddLog([called EXCEPT !.resolveResult = "failed",
                                              !.pc = "done"],
                               {<<"Executor", "On-chain resolution failed", "Negative">>})]
    /\ UNCHANGED <<stakes, program, activeMarkets, scheduledResolutions, timers, reconsiderations, reconsiderationLogs, logStore>>

-----------------------------------------------------------------------------
(* SolanaAgent.distributeAllRewards *)

\* distributeAllRewards: userBetYes === yesWon
IsWinner(stake, outcome) == stake.direction = (outcome = 1)

\* distributeAllRewards: stakes.filter(...)
WinningStakes(snapshot, outcome) ==
    SelectSeq(snapshot, LAMBDA stake : IsWinner(stake, outcome))

\* a reward of the staked amount itself
RewardAmountStaked(stake) == stake.amount

\* distributeAllRewards: rewardAmount = stake.amount * 2
RewardAmount(stake) == stake.amount * RewardFactor

\* counts whose total is the number of all stakes of the snapshot
DistributionResultOfAll(distributed, failed, snapshot, winningStakes) ==
    [distributed |-> distributed, failed |-> failed, total |-> Len(snapshot)]

\* distributeAllRewards: the returned counts
DistributionResult(distributed, failed, snapshot, winningStakes) ==
    [distributed |-> distributed, failed |-> failed, total |-> Len(winningStakes)]

\* executorNode: the logs on the counts, then the return after a successful resolve
DistributionDone(run, result) ==
    LET entries ==
            IF result.total > 0
            THEN {<<"Executor", "Distributed rewards", "Positive">>}
                 \cup (IF result.failed > 0
                       THEN {<<"Executor", "reward distribution(s) failed", "Negative">>}
                       ELSE {})
            ELSE {<<"Executor", "No stakes found", "Neutral">>}
    IN  AddLog(ExecutorReturn([run EXCEPT !.distResult = <<result>>],
                              run.resolveResult),
               entries)

\* getCredStakesForMarket: initProgram() loads the program when the IDL file is
\* there; without a program, or when getProgramAccounts throws, the catch
\* block returns []
getCredStakesForMarket(addr, loaded, rpcOk) ==
    IF loaded /\ rpcOk THEN stakes[addr] ELSE <<>>

\* distributeAllRewards up to the first disbursement: the stake query, the early
\* return on no stakes, the filter
GetCredStakes(r) ==
    /\ runs[r].pc = "query"
    /\ \E idl \in BOOLEAN, rpcOk \in BOOLEAN :
        LET loaded == program \/ idl
            snapshot == getCredStakesForMarket(runs[r].distAddr, loaded, rpcOk)
            run == [runs[r] EXCEPT !.nQuery = @ + 1, !.snapshot = snapshot]
            winningStakes == WinningStakes(snapshot, Outcome(run.decision))
        IN  /\ program' = loaded
            /\ IF Len(snapshot) = 0
               THEN runs' = [runs EXCEPT ![r] =
                        DistributionDone(run, [distributed |-> 0, failed |-> 0, total |-> 0])]
               ELSE IF Len(winningStakes) = 0
               THEN runs' = [runs EXCEPT ![r] =
                        DistributionDone(run, DistributionResult(0, 0, snapshot, winningStakes))]
               ELSE runs' = [runs EXCEPT ![r] =
                        [run EXCEPT !.winners = winningStakes, !.pc = "pay"]]
    /\ UNCHANGED <<chain, stakes, activeMarkets, scheduledResolutions, timers, reconsiderations, reconsiderationLogs, logStore>>

\* a loop that stays at a winner until its disbursement succeeds
CurrentWinnerUntilPaid(run) == run.winners[run.distributed + 1]

\* the stake the loop is at: the calls made so far are the winners before it
CurrentWinner(run) == run.winners[Len(run.payCalls) + 1]

\* distributeAllRewards: one turn of the loop, distributeRewardToWinner and the
\* count of its result; after the last winner the return
DistributeRewardToWinner(r) ==
    /\ runs[r].pc = "pay"
    /\ \E ok \in BOOLEAN :
        LET run == runs[r]
            stake == CurrentWinner(run)
            call == [user |-> stake.user, market |-> run.distAddr,
                     amount |-> RewardAmount(stake), success |-> ok]
            paid == [run EXCEPT !.payCalls = Append(@, call),
                                !.distributed = IF ok THEN @ + 1 ELSE @,
                                !.failed = IF ok THEN @ ELSE @ + 1]
        IN  IF Len(paid.payCalls) = Len(run.winners)
            THEN runs' = [runs EXCEPT ![r] =
                     DistributionDone(paid,
                         DistributionResult(paid.distributed, paid.failed,
                                            run.snapshot, run.winners))]
            ELSE runs' = [runs EXCEPT ![r] = paid]
    /\ UNCHANGED <<chain, stakes, program, activeMarkets, scheduledResolutions, timers, reconsiderations, reconsiderationLogs, logStore>>

-----------------------------------------------------------------------------
(* The triggers of a resolution *)

\* an id activeMarkets has no entry for
Untracked == [tracked |-> FALSE, status |-> "", evidence |-> <<>>]

\* POST /resolve: the text the researcher gets for a stored evidence item
EvidenceFromStorage(evidence) ==
    [i \in 1..Len(evidence) |->
        IF evidence[i].description # ""
        THEN <<"described", evidence[i].description, evidence[i].cid>>
        ELSE <<"Evidence IPFS", evidence[i].cid>>]

\* what a request may carry as evidenceUrls
RequestEvidence == {<<>>, <<<<"url", "x">>>>}

\* POST /resolve, from the market fetch (when no question is sent, and then
\* fetchMarket needs the program to find the market) to agentApp.invoke: the
\* activeMarkets entry is rewritten with status 'researching', the stored
\* evidence goes before the request's
PostResolve(marketId, pdas, evidence) ==
    /\ NewRun <= MaxRuns
    /\ \E hasQuestion \in BOOLEAN, providedPda \in pdas, evidenceUrls \in evidence :
        LET marketPda == IF hasQuestion THEN providedPda ELSE findMarketPda(marketId)
            existingMarket == activeMarkets[marketId]
            allEvidence == EvidenceFromStorage(existingMarket.evidence) \o evidenceUrls
        IN  /\ hasQuestion \/ (program /\ marketId \in Markets)
            /\ activeMarkets' = [activeMarkets EXCEPT ![marketId] =
                    [tracked |-> TRUE, status |-> "researching",
                     evidence |-> existingMarket.evidence]]
            /\ runs' = [runs EXCEPT ![NewRun] =
                    AddLog(InitialState("post", marketId, marketPda, allEvidence),
                           {<<"System", "Starting resolution", "Positive">>})]
    /\ UNCHANGED <<chain, stakes, program, scheduledResolutions, timers, reconsiderations, reconsiderationLogs, logStore>>

\* what POST /evidence may carry: a CID with or without a description
EvidenceItems == {[cid |-> "c1", description |-> ""], [cid |-> "c2", description |-> "d"]}

\* POST /evidence with a market id and a CID: the market's entry is created
\* with status 'open' when there is none, and the item is pushed on its list
PostEvidence(marketId, items) ==
    /\ Len(activeMarkets[marketId].evidence) < MaxEvidence
    /\ \E item \in items :
          LET market == IF activeMarkets[marketId].tracked
                        THEN activeMarkets[marketId]
                        ELSE [tracked |-> TRUE, status |-> "open", evidence |-> <<>>]
          IN  activeMarkets' = [activeMarkets EXCEPT ![marketId] =
                  [market EXCEPT !.evidence = Append(@, item)]]
    /\ UNCHANGED <<chain, stakes, program, runs, scheduledResolutions, timers, reconsiderations, reconsiderationLogs, logStore>>

\* POST /market-created with a market id: the market's entry is set to a new
\* one with status 'open', no evidence and no logs
MarketCreated(marketId) ==
    /\ activeMarkets' = [activeMarkets EXCEPT ![marketId] =
            [tracked |-> TRUE, status |-> "open", evidence |-> <<>>]]
    /\ logStore' = [logStore EXCEPT !.marketLogs[marketId] = <<>>]
    /\ UNCHANGED <<chain, stakes, program, runs, scheduledResolutions, timers, reconsiderations, reconsiderationLogs>>

-----------------------------------------------------------------------------
(* The log store (logHistory, market.logs, currentResolvingMarketId) *)

\* addGlobalLog: logHistory.length > 200
LogHistoryLimit == 200
\* addGlobalLog: market.logs.length > 100
MarketLogLimit == 100

\* currentResolvingMarketId is null, or addGlobalLog is called without a market id
NoMarket == "<null>"

\* the store before any entry. An entry is kept as the number of the
\* addGlobalLog call that appended it; appended keeps, for every call, the run
\* that made it and the market whose log the entry was pushed on
EmptyLogStore ==
    [logHistory |-> <<>>,
     marketLogs |-> [m \in MarketIds |-> <<>>],
     currentResolvingMarketId |-> NoMarket,
     appended |-> <<>>]

pushKeepingOldest(list, entry, limit) ==
    IF Len(list) >= limit THEN list ELSE Append(list, entry)

\* list.push(entry); if (list.length > limit) list.shift()
push(list, entry, limit) ==
    LET pushed == Append(list, entry)
    IN  IF Len(pushed) > limit THEN Tail(pushed) ELSE pushed

setCurrentMarket(store, marketId) ==
    [store EXCEPT !.currentResolvingMarketId = marketId]

\* addGlobalLog(entry, marketId?) called by a run (0: by no run), given the
\* activeMarkets map: the entry goes on logHistory and on the log of marketId, or
\* of the market being resolved when there is no marketId, if that market is tracked
addGlobalLog(store, markets, run, marketId) ==
    LET entry == Len(store.appended) + 1
        targetMarketId == IF marketId # NoMarket THEN marketId
                          ELSE store.currentResolvingMarketId
        market == targetMarketId # NoMarket /\ markets[targetMarketId].tracked
    IN  [store EXCEPT
            !.logHistory = push(@, entry, LogHistoryLimit),
            !.marketLogs = IF market
                           THEN [@ EXCEPT ![targetMarketId] = push(@, entry, MarketLogLimit)]
                           ELSE @,
            !.appended = Append(@, [run |-> run,
                                    market |-> IF market THEN targetMarketId ELSE NoMarket])]

\* POST /resolve with a question, up to the first await of researcherNode, with
\* its calls of the log store: 'Starting resolution' is logged by the handler
\* before setCurrentMarket(marketId), the researcher's first entry by the run after it
LogPostResolve(marketId, limit) ==
    /\ NewRun <= MaxRuns
    /\ Len(logStore.appended) + 2 <= limit
    /\ activeMarkets' = [activeMarkets EXCEPT ![marketId] =
            [tracked |-> TRUE, status |-> "researching",
             evidence |-> activeMarkets[marketId].evidence]]
    /\ runs' = [runs EXCEPT ![NewRun] =
            AddLog(InitialState("post", marketId, "", <<>>),
                   {<<"System", "Starting resolution", "Positive">>,
                    <<"Researcher", "Researching", "Neutral">>})]
    /\ logStore' =
          LET starting == addGlobalLog(logStore, activeMarkets', 0, NoMarket)
          IN  addGlobalLog(setCurrentMarket(starting, marketId), activeMarkets', NewRun, NoMarket)
    /\ UNCHANGED <<chain, stakes, program, scheduledResolutions, timers, reconsiderations, reconsiderationLogs>>

\* a node of a run in flight calls addGlobalLog(entry)
NodeLogs(r, limit) ==
    /\ runs[r].pc = "researcher"
    /\ Len(logStore.appended) < limit
    /\ logStore' = addGlobalLog(logStore, activeMarkets, r, NoMarket)
    /\ UNCHANGED <<chain, stakes, program, activeMarkets, runs, scheduledResolutions, timers, reconsiderations, reconsiderationLogs>>

\* POST /resolve after agentApp.invoke has returned or thrown: setCurrentMarket(null)
InvokeReturns(r) ==
    /\ runs[r].pc = "researcher"
    /\ runs[r].source = "post"
    /\ runs' = [runs EXCEPT ![r].pc = "done"]
    /\ logStore' = setCurrentMarket(logStore, NoMarket)
    /\ UNCHANGED <<chain, stakes, program, activeMarkets, scheduledResolutions, timers, reconsiderations, reconsiderationLogs>>

-----------------------------------------------------------------------------
(* Scheduled resolutions (POST, DELETE /schedule-resolution/:marketId) *)

\* a timer id setTimeout has not given out
UnusedTimer == [state |-> "unused", marketId |-> ""]
NewTimer == Cardinality({t \in TimerIds : timers[t].state # "unused"}) + 1

clearTimeoutLeavingPending(t) == timers

\* clearTimeout: a pending timer never fires, any other is left as it is
clearTimeout(t) ==
    IF t # 0 /\ timers[t].state = "pending"
    THEN [timers EXCEPT ![t].state = "cleared"]
    ELSE timers

\* POST /schedule-resolution up to await fetchMarket: the timer of the market's
\* entry is cleared, the entry stays
ScheduleBegin(marketId, limit) ==
    /\ NewTimer <= limit
    /\ timers' = [clearTimeout(scheduledResolutions[marketId]) EXCEPT ![NewTimer] =
                    [state |-> "awaiting", marketId |-> marketId]]
    /\ UNCHANGED <<chain, stakes, program, activeMarkets, runs, scheduledResolutions, reconsiderations, reconsiderationLogs, logStore>>

\* POST /schedule-resolution after the fetch: a tracked market goes back to
\* 'open', the timer is set and becomes the market's entry
ScheduleFinish(t) ==
    /\ timers[t].state = "awaiting"
    /\ LET marketId == timers[t].marketId
       IN  /\ activeMarkets' =
                IF activeMarkets[marketId].tracked
                THEN [activeMarkets EXCEPT ![marketId].status = "open"]
                ELSE activeMarkets
           /\ timers' = [timers EXCEPT ![t].state = "pending"]
           /\ scheduledResolutions' = [scheduledResolutions EXCEPT ![marketId] = t]
    /\ UNCHANGED <<chain, stakes, program, runs, reconsiderations, reconsiderationLogs, logStore>>

\* the timer callback up to await fetchMarket: the market's entry is deleted
TimerFire(t) ==
    /\ timers[t].state = "pending"
    /\ NewRun <= MaxRuns
    /\ timers' = [timers EXCEPT ![t].state = "fired"]
    /\ scheduledResolutions' = [scheduledResolutions EXCEPT ![timers[t].marketId] = 0]
    /\ runs' = [runs EXCEPT ![NewRun] =
            AddLog([IdleRun EXCEPT !.pc = "fetch", !.source = "timer",
                                   !.marketId = timers[t].marketId],
                   {<<"System", "Scheduled resolution triggered", "Positive">>})]
    /\ UNCHANGED <<chain, stakes, program, activeMarkets, reconsiderations, reconsiderationLogs, logStore>>

\* SolanaAgent.fetchMarket: the account, or null when the program is not loaded
\* or the fetch throws inside it
FetchOutcomes == {"found", "null"}

\* the timer callback after the fetch: agentApp.invoke with the derived address
\* and no evidence, or the error broadcast when the market is not there
FetchMarket(r, fetches) ==
    /\ runs[r].pc = "fetch"
    /\ \E fetched \in fetches :
        /\ fetched = "found" => program
        /\ runs' = [runs EXCEPT ![r] =
                IF fetched = "found"
                THEN [InitialState("timer", runs[r].marketId,
                                   findMarketPda(runs[r].marketId), <<>>)
                        EXCEPT !.logs = runs[r].logs]
                ELSE [runs[r] EXCEPT !.pc = "nomarket"]]
    /\ UNCHANGED <<chain, stakes, program, activeMarkets, scheduledResolutions, timers, reconsiderations, reconsiderationLogs, logStore>>

\* DELETE /schedule-resolution: with an entry, its timer is cleared and the
\* entry deleted; without one the answer is 404
CancelSchedule(marketId) ==
    /\ scheduledResolutions[marketId] # 0
    /\ timers' = clearTimeout(scheduledResolutions[marketId])
    /\ scheduledResolutions' = [scheduledResolutions EXCEPT ![marketId] = 0]
    /\ UNCHANGED <<chain, stakes, program, activeMarkets, runs, reconsiderations, reconsiderationLogs, logStore>>

-----------------------------------------------------------------------------
(* The ledger's other users *)

\* dispute_market: a user disputes a resolved market
DisputeMarket(addr) ==
    /\ chain[addr].status = "Resolved"
    /\ chain' = [chain EXCEPT ![addr].status = "Disputed"]
    /\ UNCHANGED <<stakes, program, activeMarkets, runs, scheduledResolutions, timers, reconsiderations, reconsiderationLogs, logStore>>

-----------------------------------------------------------------------------
(* Reconsideration (reconsideration.ts) *)

\* analyzeEvidenceNode: what generateContent and JSON.parse give the node; facts
\* is the parsed field: absent, a list, or a value that is no list (a string)
AnalysisReplies ==
    {[kind |-> k, facts |-> "absent"] : k \in {"error", "unparseable"}}
    \cup {[kind |-> "json", facts |-> f] : f \in {"absent", "none", "one", "text"}}

\* analyzeEvidenceNode: factAnalysis: parsed.facts || [], and the catch block;
\* isList tells whether the value has join
AnalysisFacts(reply) ==
    IF reply.kind # "json" THEN [isList |-> TRUE, items |-> <<"Unable to analyze evidence">>]
    ELSE CASE reply.facts = "one" -> [isList |-> TRUE, items |-> <<"n1">>]
           [] reply.facts = "text" -> [isList |-> FALSE, items |-> <<>>]
           [] OTHER -> [isList |-> TRUE, items |-> <<>>]

\* reconsiderationJudgeNode: what generateContent and JSON.parse give the node
ReconsiderationReplies ==
    {[kind |-> k, recommendation |-> Undefined, confidence |-> Unset] :
        k \in {"error", "unparseable", "null"}}
    \cup {[kind |-> "json", recommendation |-> rec, confidence |-> c] :
            rec \in {"UPHOLD", "ANNOTATE", "OVERTURN", "overturn", "maybe",
                     Undefined, NotAString},
            c \in {Unset, 80, 150}}

\* reconsiderationJudgeNode: the try block throws
ReconsiderationThrows(reply) ==
    \/ reply.kind \in {"error", "unparseable", "null"}
    \/ reply.recommendation = NotAString

\* reconsiderationJudgeNode: parsed.recommendation?.toUpperCase() || 'UPHOLD',
\* and the catch block
Recommendation(reply) ==
    IF ReconsiderationThrows(reply) \/ reply.recommendation = Undefined THEN "UPHOLD"
    ELSE toUpperCase(reply.recommendation)

\* reconsiderationJudgeNode: parsed.confidence_level || 50, 0 from the catch block
ConfidenceLevel(reply) ==
    IF ReconsiderationThrows(reply) THEN 0
    ELSE IF reply.confidence \in {Unset, 0} THEN 50 ELSE reply.confidence

\* processReconsideration: confidenceChange, with Math.round of a half upwards
ConfidenceChange(recommendation, confidenceLevel) ==
    IF recommendation = "OVERTURN" THEN 0 - confidenceLevel
    ELSE IF recommendation = "ANNOTATE" THEN (confidenceLevel - 50 + 1) \div 2
    ELSE 0

\* processReconsideration: newOutcome
NewOutcome(recommendation, originalOutcome) ==
    IF recommendation = "OVERTURN"
    THEN (IF originalOutcome = "YES" THEN "NO" ELSE "YES")
    ELSE "UNCHANGED"

\* POST /reconsider: req.body.originalOutcome
OriginalOutcomes == {"YES", "NO", Undefined}

\* a processReconsideration call: the graph state, the replies its nodes got,
\* the number of times each node was entered, and the returned result
IdleReconsideration ==
    [pc |-> "idle", marketId |-> "", originalOutcome |-> "",
     factAnalysis |-> [isList |-> TRUE, items |-> <<>>],
     confidenceLevel |-> 50, recommendation |-> "UPHOLD",
     analysis |-> <<>>, judgment |-> <<>>,
     nAnalyze |-> 0, nJudge |-> 0, result |-> <<>>]

\* the processReconsideration calls begun so far
Reconsidering == {q \in ReconIds : reconsiderations[q].pc # "idle"}

\* addLog of reconsideration.ts: push on the array reconsiderationLogs points to;
\* q is the call that makes the entry
addLog(logs, q, entries) == logs \o [i \in 1..Len(entries) |-> <<q>> \o entries[i]]

\* POST /reconsider with a market id and an evidence CID: the request,
\* processReconsideration up to reconsiderationApp.invoke, and
\* analyzeEvidenceNode up to await generateContent
PostReconsider(marketId, outcomes) ==
    /\ Cardinality(Reconsidering) < MaxRecons
    /\ \E given \in outcomes :
          LET q == Cardinality(Reconsidering) + 1
          IN  /\ reconsiderations' = [reconsiderations EXCEPT ![q] =
                    [IdleReconsideration EXCEPT
                        !.pc = "analyze",
                        !.marketId = marketId,
                        !.originalOutcome = IF given = Undefined THEN "YES" ELSE given,
                        !.nAnalyze = 1]]
              /\ reconsiderationLogs' =
                    addLog(<<>>, q,
                           <<<<"System", "Reconsideration request received", "Neutral">>,
                             <<"Researcher", "Analyzing new evidence", "Neutral">>>>)
    /\ UNCHANGED <<chain, stakes, program, activeMarkets, runs, scheduledResolutions, timers, logStore>>

\* analyzeEvidenceNode from the reply of generateContent to its return, then
\* reconsiderationJudgeNode up to await generateContent; building the judge's
\* prompt calls state.factAnalysis.join outside the try block, which throws out
\* of the node when factAnalysis is no list
AnalyzeEvidence(q, replies) ==
    /\ reconsiderations[q].pc = "analyze"
    /\ \E reply \in replies :
          LET facts == AnalysisFacts(reply)
              analysed == IF reply.kind = "json"
                          THEN <<"Researcher", "Found new facts", "Neutral">>
                          ELSE <<"System", "Evidence analysis error", "Negative">>
          IN  /\ reconsiderations' = [reconsiderations EXCEPT ![q] =
                    [@ EXCEPT !.analysis = <<reply>>,
                              !.factAnalysis = facts,
                              !.nJudge = @ + 1,
                              !.pc = IF facts.isList THEN "judge" ELSE "error"]]
              /\ reconsiderationLogs' =
                    addLog(reconsiderationLogs, q,
                           <<analysed, <<"Judge", "Evaluating reconsideration request", "Neutral">>>>)
    /\ UNCHANGED <<chain, stakes, program, activeMarkets, runs, scheduledResolutions, timers, logStore>>

\* the log entries of reconsiderationJudgeNode after generateContent
JudgeEntries(reply) ==
    IF ReconsiderationThrows(reply)
    THEN <<<<"Judge", "Judgment error. Defaulting to UPHOLD", "Negative">>>>
    ELSE <<<<"Judge", "Verdict",
             IF Recommendation(reply) = "OVERTURN" THEN "Negative" ELSE "Positive">>>>

\* processReconsideration: the returned result
ReconsiderationResult(session, recommendation, confidenceLevel, logs) ==
    [marketId |-> session.marketId,
     originalOutcome |-> session.originalOutcome,
     newOutcome |-> NewOutcome(recommendation, session.originalOutcome),
     confidenceChange |-> ConfidenceChange(recommendation, confidenceLevel),
     recommendation |-> recommendation,
     logs |-> logs]

\* a reconsideration that writes an overturned outcome to the market account
JudgeReconsiderationApplying(q, replies) ==
    /\ reconsiderations[q].pc = "judge"
    /\ \E reply \in replies :
          LET logs == addLog(reconsiderationLogs, q, JudgeEntries(reply))
              addr == findMarketPda(reconsiderations[q].marketId)
          IN  /\ reconsiderationLogs' = logs
              /\ reconsiderations' = [reconsiderations EXCEPT ![q] =
                    [@ EXCEPT !.judgment = <<reply>>,
                              !.recommendation = Recommendation(reply),
                              !.confidenceLevel = ConfidenceLevel(reply),
                              !.result = <<ReconsiderationResult(reconsiderations[q],
                                              Recommendation(reply),
                                              ConfidenceLevel(reply), logs)>>,
                              !.pc = "done"]]
              /\ chain' = IF Recommendation(reply) = "OVERTURN"
                          THEN [chain EXCEPT ![addr].outcome =
                                   IF reconsiderations[q].originalOutcome = "YES" THEN 0 ELSE 1]
                          ELSE chain
    /\ UNCHANGED <<stakes, program, activeMarkets, runs, scheduledResolutions, timers, logStore>>

\* reconsiderationJudgeNode from the reply of generateContent to its return,
\* then processReconsideration to its result
JudgeReconsideration(q, replies) ==
    /\ reconsiderations[q].pc = "judge"
    /\ \E reply \in replies :
          LET logs == addLog(reconsiderationLogs, q, JudgeEntries(reply))
          IN  /\ reconsiderationLogs' = logs
              /\ reconsiderations' = [reconsiderations EXCEPT ![q] =
                    [@ EXCEPT !.judgment = <<reply>>,
                              !.recommendation = Recommendation(reply),
                              !.confidenceLevel = ConfidenceLevel(reply),
                              !.result = <<ReconsiderationResult(reconsiderations[q],
                                              Recommendation(reply),
                                              ConfidenceLevel(reply), logs)>>,
                              !.pc = "done"]]
    /\ UNCHANGED <<chain, stakes, program, activeMarkets, runs, scheduledResolutions, timers, logStore>>

(* ReconSpec: one processReconsideration call over every reply of its two
   generation calls *)

ReconStep ==
    \/ AnalyzeEvidence(1, AnalysisReplies)
    \/ JudgeReconsideration(1, ReconsiderationReplies)

ReconNext ==
    \/ \E m \in Markets : Reconsidering = {} /\ PostReconsider(m, OriginalOutcomes)
    \/ ReconStep

-----------------------------------------------------------------------------
(* The specification *)

\* initialize_market: a market account as created
OpenMarket == [status |-> "Open", outcome |-> Unset, digest |-> <<>>]

Stake(user, direction, amount) ==
    [user |-> user, direction |-> direction, amount |-> amount]

\* the stake accounts the runs of Spec meet: none on one market, a Yes and a No
\* stake on the other
SomeStakes ==
    [addr \in MarketAddrs |->
        IF addr = "pda1"
        THEN <<Stake("u1", TRUE, 1), Stake("u2", FALSE, 3)>>
        ELSE <<>>]

\* the ways to list at most n stake accounts of one market, one per user
RECURSIVE Snapshots(_)
Snapshots(n) ==
    IF n = 0 THEN {<<>>}
    ELSE Snapshots(n - 1) \cup
         {Append(snapshot, Stake(user, direction, amount)) :
            snapshot \in {s \in Snapshots(n - 1) : Len(s) = n - 1},
            user \in Users, direction \in BOOLEAN, amount \in Amounts}

OneStakePerUser(snapshot) ==
    \A i, j \in 1..Len(snapshot) : snapshot[i].user = snapshot[j].user => i = j

\* the stores of reconsideration.ts when the server starts
StoresInit ==
    /\ reconsiderations = [q \in ReconIds |-> IdleReconsideration]
    /\ reconsiderationLogs = <<>>
    /\ logStore = EmptyLogStore

Init ==
    /\ chain = [addr \in MarketAddrs |-> OpenMarket]
    /\ stakes = SomeStakes
    /\ program \in BOOLEAN
    /\ activeMarkets = [m \in MarketIds |-> Untracked]
    /\ runs = [r \in RunIds |-> IdleRun]
    /\ scheduledResolutions = [m \in Markets |-> 0]
    /\ timers = [t \in TimerIds |-> UnusedTimer]
    /\ StoresInit

(* Spec: the triggers and the ledger with MaxRuns runs side by side; every run
   gets facts and a YES or NO verdict at once *)

DecidedReplies == {reply \in JudgeReplies : reply.decision \in {"YES", "NO"}}
FoundReplies ==
    {reply \in ResearchReplies : reply.kind = "json" /\ reply.conf = <<90>> /\ Len(reply.facts) = 1}

Next ==
    \/ \E m \in Markets : PostResolve(m, {"pda2"}, {<<>>})
    \/ \E m \in Markets : ScheduleBegin(m, MaxSchedules)
    \/ \E t \in TimerIds : ScheduleFinish(t)
    \/ \E t \in TimerIds : TimerFire(t)
    \/ \E r \in RunIds : FetchMarket(r, FetchOutcomes)
    \/ \E m \in Markets : CancelSchedule(m)
    \/ \E r \in RunIds : Research(r, FoundReplies)
    \/ \E r \in RunIds : Judge(r, DecidedReplies)
    \/ \E r \in RunIds : ExecutorEnter(r)
    \/ \E r \in RunIds : PinTranscript(r, {"stored"})
    \/ \E r \in RunIds : PinNFTMetadata(r, {"stored"})
    \/ \E r \in RunIds : ResolveMarket(r, RpcOutcomes)
    \/ \E r \in RunIds : GetCredStakes(r)
    \/ \E r \in RunIds : DistributeRewardToWinner(r)
    \/ \E addr \in MarketAddrs : DisputeMarket(addr)

Spec == Init /\ [][Next]_vars

(* RunSpec: one run, with every reply the nodes can get *)

RunStep ==
    \/ Research(1, ResearchReplies)
    \/ Judge(1, JudgeReplies)
    \/ ExecutorEnter(1)
    \/ PinTranscript(1, {"stored", "throws"})
    \/ PinNFTMetadata(1, {"stored"})
    \/ ResolveMarket(1, RpcOutcomes)
    \/ GetCredStakes(1)
    \/ DistributeRewardToWinner(1)

RunNext ==
    \/ \E m \in MarketIds : Started = {} /\ PostResolve(m, ProvidedPdas, {<<>>})
    \/ RunStep
    \/ \E addr \in MarketAddrs : DisputeMarket(addr)

\* every awaited call of a run returns: the generation client gives up after its
\* retries, the RPC calls resolve or reject
RunSpec == Init /\ [][RunNext]_vars /\ WF_vars(RunStep)

(* PinSpec: one run with facts and a YES or NO verdict, over every outcome of
   the content store at the transcript pin and at the metadata pin *)

PinStep ==
    \/ Research(1, FoundReplies)
    \/ Judge(1, DecidedReplies)
    \/ ExecutorEnter(1)
    \/ PinTranscript(1, StoreOutcomes)
    \/ PinNFTMetadata(1, StoreOutcomes)
    \/ ResolveMarket(1, {"ok", "NetworkError"})
    \/ GetCredStakes(1)
    \/ DistributeRewardToWinner(1)

PinNext ==
    \/ \E m \in Markets : Started = {} /\ PostResolve(m, {"", "pda2", "invalid"}, {<<>>})
    \/ PinStep

PinSpec == Init /\ [][PinNext]_vars /\ WF_vars(PinStep)

(* GenSpec: the research pass of one run with the generation client spelled
   out, fetch by fetch *)

GenNext ==
    \/ \E m \in Markets : Started = {} /\ PostResolve(m, {""}, {<<>>})
    \/ GenerateBegin(1)
    \/ GenerateFetch(1, FetchResponses)
    \/ ResearchAfterGeneration(1, ResearchReplies)

GenSpec == Init /\ [][GenNext]_vars

(* AnchorSpec: the runs of one market up to the transcript pin, over every
   outcome of the content store *)

AnchorNext ==
    \/ PostResolve("m1", {""}, {<<>>})
    \/ \E r \in RunIds : Research(r, FoundReplies)
    \/ \E r \in RunIds : Judge(r, DecidedReplies)
    \/ \E r \in RunIds : ExecutorEnter(r)
    \/ \E r \in RunIds : PinTranscript(r, StoreOutcomes)

AnchorSpec == Init /\ [][AnchorNext]_vars

\* every awaited generation call of a reconsideration returns or throws
ReconSpec == Init /\ [][ReconNext]_vars /\ WF_vars(ReconStep)

(* EvidenceSpec: the API operations on the tracked markets and their evidence,
   with the resolutions and schedules of one market; the runs are followed up
   to their first Research pass *)

EvidenceNext ==
    \/ \E m \in Markets : PostEvidence(m, EvidenceItems)
    \/ \E m \in Markets : MarketCreated(m)
    \/ PostResolve("m1", {""}, RequestEvidence)
    \/ ScheduleBegin("m1", MaxSchedules)
    \/ \E t \in TimerIds : ScheduleFinish(t)
    \/ \E t \in TimerIds : TimerFire(t)
    \/ \E r \in RunIds : FetchMarket(r, FetchOutcomes)
    \/ CancelSchedule("m1")

EvidenceSpec == Init /\ [][EvidenceNext]_vars

(* CancelSpec: the schedule, cancel and timer handlers, and the runs the timers
   start, each with facts and a YES or NO verdict, over every outcome of the
   ledger call and of the metadata pin *)

CancelStep ==
    \E r \in RunIds :
        \/ FetchMarket(r, FetchOutcomes)
        \/ Research(r, FoundReplies)
        \/ Judge(r, DecidedReplies)
        \/ ExecutorEnter(r)
        \/ PinTranscript(r, {"stored"})
        \/ PinNFTMetadata(r, StoreOutcomes)
        \/ ResolveMarket(r, RpcOutcomes)
        \/ GetCredStakes(r)
        \/ DistributeRewardToWinner(r)

CancelNext ==
    \/ \E m \in Markets : ScheduleBegin(m, MaxSchedules)
    \/ \E t \in TimerIds : ScheduleFinish(t)
    \/ \E t \in TimerIds : TimerFire(t)
    \/ \E m \in Markets : CancelSchedule(m)
    \/ CancelStep

\* every awaited call of a started run returns
CancelSpec == Init /\ [][CancelNext]_vars /\ WF_vars(CancelStep)

(* OverlapSpec: schedule and cancel requests that may overlap, and the timers
   up to the start of their runs *)

OverlapNext ==
    \/ \E m \in Markets : ScheduleBegin(m, MaxOverlapping)
    \/ \E t \in TimerIds : ScheduleFinish(t)
    \/ \E t \in TimerIds : TimerFire(t)
    \/ \E r \in RunIds : FetchMarket(r, FetchOutcomes)
    \/ \E m \in Markets : CancelSchedule(m)

OverlapSpec == Init /\ [][OverlapNext]_vars

(* ReconLogSpec: processReconsideration calls side by side, each with an
   analysis that succeeds or fails and a judgment that succeeds or fails *)

ReconLogNext ==
    \/ PostReconsider("m1", {"YES"})
    \/ \E q \in ReconIds :
          AnalyzeEvidence(q, {reply \in AnalysisReplies : reply.facts \in {"absent", "one"}})
    \/ \E q \in ReconIds :
          JudgeReconsideration(q, {reply \in ReconsiderationReplies :
                                      /\ reply.kind \in {"error", "json"}
                                      /\ reply.recommendation \in {Undefined, "OVERTURN"}
                                      /\ reply.confidence = Unset})

ReconLogSpec == Init /\ [][ReconLogNext]_vars

(* LogViewSpec: resolutions of the two markets side by side, with the calls of
   the log store only and a few entries *)

\* number of addGlobalLog calls in LogViewSpec
MaxLogged == 6

LogViewNext ==
    \/ \E m \in Markets : LogPostResolve(m, MaxLogged)
    \/ \E r \in RunIds : NodeLogs(r, MaxLogged)
    \/ \E r \in RunIds : InvokeReturns(r)

LogViewSpec == Init /\ [][LogViewNext]_vars

(* LogStoreSpec: one resolution that logs until both limits are passed *)

\* number of addGlobalLog calls in LogStoreSpec, above LogHistoryLimit
MaxAppended == 203

LogStoreNext ==
    \/ \E m \in Markets : Started = {} /\ LogPostResolve(m, MaxAppended)
    \/ NodeLogs(1, MaxAppended)
    \/ InvokeReturns(1)

LogStoreSpec == Init /\ [][LogStoreNext]_vars

(* DistSpec: one run over every list of at most MaxStakes stake accounts, and
   over a market of five stakes, three on Yes and two on No *)

FiveStakes ==
    <<Stake("u1", TRUE, 1), Stake("u2", FALSE, 3), Stake("u3", TRUE, 3),
      Stake("u4", FALSE, 1), Stake("u5", TRUE, 1)>>

DistInit ==
    /\ chain = [addr \in MarketAddrs |-> OpenMarket]
    /\ \E snapshot \in {s \in Snapshots(MaxStakes) : OneStakePerUser(s)} \cup {FiveStakes} :
          stakes = [addr \in MarketAddrs |-> IF addr = "pda1" THEN snapshot ELSE <<>>]
    /\ program \in BOOLEAN
    /\ activeMarkets = [m \in MarketIds |-> Untracked]
    /\ runs = [r \in RunIds |-> IdleRun]
    /\ scheduledResolutions = [m \in Markets |-> 0]
    /\ timers = [t \in TimerIds |-> UnusedTimer]
    /\ StoresInit

DistNext ==
    \/ Started = {} /\ PostResolve("m1", {""}, {<<>>})
    \/ Research(1, FoundReplies)
    \/ Judge(1, DecidedReplies)
    \/ ExecutorEnter(1)
    \/ PinTranscript(1, {"stored"})
    \/ PinNFTMetadata(1, {"stored"})
    \/ ResolveMarket(1, {"ok", "NetworkError"})
    \/ GetCredStakes(1)
    \/ DistributeRewardToWinner(1)

DistSpec == DistInit /\ [][DistNext]_vars

(* ReconLedgerSpec: one processReconsideration call before, while or after a
   resolution run settles the market *)

ReconLedgerNext ==
    \/ ReconNext
    \/ DistNext

ReconLedgerSpec == Init /\ [][ReconLedgerNext]_vars

(* LedgerSpec: the runs POST /resolve starts for one market, side by side or one
   after the other, against the ledger and its disputes *)
LedgerNext ==
    \/ PostResolve("m1", {"pda1"}, {<<>>})
    \/ \E r \in RunIds : Research(r, FoundReplies)
    \/ \E r \in RunIds : Judge(r, DecidedReplies)
    \/ \E r \in RunIds : ExecutorEnter(r)
    \/ \E r \in RunIds : PinTranscript(r, {"stored"})
    \/ \E r \in RunIds : PinNFTMetadata(r, {"stored"})
    \/ \E r \in RunIds : ResolveMarket(r, RpcOutcomes)
    \/ \E r \in RunIds : GetCredStakes(r)
    \/ \E r \in RunIds : DistributeRewardToWinner(r)
    \/ \E addr \in MarketAddrs : DisputeMarket(addr)

LedgerSpec == Init /\ [][LedgerNext]_vars

-----------------------------------------------------------------------------
(* Properties of the resolution triggers (Spec) and of the ledger (LedgerSpec) *)

\* the ledger account of a market id
MarketAccount(marketId) == chain[findMarketPda(marketId)]

\* run r is routed into executorNode in this step
EntersExecutor(r) == runs[r].pc # "executor" /\ runs'[r].pc = "executor"

\* run r gets the result of its resolveMarket call in this step
ResolveReturns(r) == runs[r].pc = "resolve" /\ runs'[r].pc # "resolve"

\* C1: no run is routed into the executor (Settle) while the ledger already holds
\* the market of the run as Resolved: once a market is settled no later trigger,
\* POST /resolve or a fired timer, leads to a second Settle.
C1_NoSettleOnceResolved ==
    [][\A r \in RunIds :
          EntersExecutor(r) => MarketAccount(runs'[r].marketId).status # "Resolved"]_vars

\* C2: the orchestrator is not re-entrant per market: no two runs of the same
\* market are in flight at the same time, and so no two of them get to the
\* ledger's resolve call together.
C2_OneRunPerMarket ==
    \A r1, r2 \in InFlight : runs[r1].marketId = runs[r2].marketId => r1 = r2

\* C3: once the ledger holds a committed outcome for a market, the outcome and
\* the transcript digest never change; a resolve call that meets the committed
\* market fails; the status changes only by a dispute, Resolved to Disputed.
C3_CommittedOutcomeKept ==
    [][\A addr \in MarketAddrs :
          chain[addr].status # "Open" =>
             /\ chain'[addr].outcome = chain[addr].outcome
             /\ chain'[addr].digest = chain[addr].digest
             /\ \/ chain'[addr].status = chain[addr].status
                \/ chain[addr].status = "Resolved" /\ chain'[addr].status = "Disputed"
             /\ \A r \in RunIds :
                   ResolveReturns(r) /\ runs[r].resolveAddr = addr =>
                      /\ runs'[r].resolveResult = "failed"
                      /\ runs'[r].pc = "done"
                      /\ runs'[r].nQuery = 0]_vars

\* a resolve call has met a committed market and come back rejected, and the
\* ledger still holds the outcome of the first run
C3_Witness ==
    \E r1, r2 \in RunIds :
        /\ runs[r1].resolveResult = "tx"
        /\ runs[r2].resolveError = "MarketNotOpen"
        /\ runs[r2].resolveAddr = runs[r1].resolveAddr
        /\ runs[r2].resolveOutcome # runs[r1].resolveOutcome
        /\ chain[runs[r1].resolveAddr].outcome = runs[r1].resolveOutcome

-----------------------------------------------------------------------------
(* Properties of one run of the workflow (RunSpec) *)

\* run r leaves researcherNode, judgeNode in this step
ResearchReturns(r) == runs[r].pc = "researcher" /\ runs'[r].pc # "researcher"
JudgeReturns(r) == runs[r].pc = "judge" /\ runs'[r].pc # "judge"

Logged(run, speaker, message) == \E entry \in run.logs : entry[1] = speaker /\ entry[2] = message

\* C4: Research is always followed by Judge; after a Judge pass the next node is
\* Research exactly when the decision is UNCERTAIN and the iteration count is
\* under 3, else Settle; so Settle is entered only with YES or NO, or with
\* UNCERTAIN and an iteration count of 3 or more.
C4_Routing ==
    [][\A r \in RunIds :
          /\ ResearchReturns(r) => runs'[r].pc = "judge"
          /\ JudgeReturns(r) =>
                /\ runs'[r].pc \in {"researcher", "executor"}
                /\ runs'[r].pc = "researcher" <=>
                      (runs'[r].decision = "UNCERTAIN" /\ runs'[r].iterations < 3)
          /\ EntersExecutor(r) =>
                \/ runs'[r].decision \in {"YES", "NO"}
                \/ runs'[r].decision = "UNCERTAIN" /\ runs'[r].iterations >= 3]_vars

\* C5: every Judge pass, one that ends in a failure included, raises the
\* iteration count by exactly 1 and nothing else changes it; a run is routed to
\* Settle once the count is 3 or more, whatever the decision.
C5_IterationsCount ==
    [][\A r \in RunIds :
          /\ JudgeReturns(r) =>
                /\ runs'[r].iterations = runs[r].iterations + 1
                /\ runs'[r].iterations >= 3 => runs'[r].pc = "executor"
          /\ ~JudgeReturns(r) /\ runs[r].pc # "idle" =>
                runs'[r].iterations = runs[r].iterations]_vars

\* a third Judge pass that failed has sent the run to Settle, after a failed one
C5_Witness ==
    /\ runs[1].pc = "executor"
    /\ runs[1].iterations = 3
    /\ runs[1].nJudge = 3
    /\ runs[1].decision = "UNCERTAIN"
    /\ Logged(runs[1], "Judge", "Error rendering verdict")

\* Settle has run to its end: an undecided run logged that the market stays
\* unresolved; a decided one pinned and called resolve once, and either logged
\* the failure or went through the distribution, to its counts or to its logged
\* exception
SettleCompleted(run) ==
    /\ run.nExecutor = 1
    /\ ~IsTerminalDecision(run.decision) =>
          Logged(run, "Executor", "Market remains UNRESOLVED")
    /\ IsTerminalDecision(run.decision) =>
          /\ run.nPin = 1 /\ run.nResolve = 1
          /\ run.resolveResult = "failed" =>
                Logged(run, "Executor", "On-chain resolution failed")
          /\ run.resolveResult # "failed" =>
                \/ run.nQuery = 1 /\ run.distResult # <<>>
                \/ Logged(run, "Executor", "Reward distribution error")

\* the bounds of a run in any state
RunBounded(run) ==
    /\ run.nResearch <= 3 /\ run.nJudge <= 3 /\ run.nExecutor <= 1
    /\ run.pc = "done" => SettleCompleted(run)

\* C6: every run terminates: it makes at most 3 Research and at most 3 Judge
\* passes, invokes Settle exactly once, and is Done only after Settle completed,
\* with success or with a logged failure.
C6_RunTerminates ==
    /\ [](\A r \in RunIds : RunBounded(runs[r]))
    /\ \A r \in RunIds :
          (runs[r].pc = "researcher") ~>
             (runs[r].pc \in {"done", "error"} /\ runs[r].nExecutor = 1)

\* a run is Done after three rounds and a completed settlement
C6_Witness ==
    /\ runs[1].pc = "done"
    /\ runs[1].nResearch = 3 /\ runs[1].nJudge = 3 /\ runs[1].nExecutor = 1
    /\ runs[1].decision = "YES"
    /\ runs[1].distResult # <<>>

\* C7: a run that Settle finished with decision UNCERTAIN pinned nothing, made
\* no resolve call, no stake query and no disbursement, left the ledger as it
\* was, logged that the market remains unresolved, and returns an empty CID and
\* an empty signature.
C7_UncertainSettlesNothing ==
    \A r \in RunIds :
        runs[r].nExecutor > 0 /\ runs[r].decision = "UNCERTAIN" =>
            /\ runs[r].pc = "done"
            /\ runs[r].nPin = 0 /\ runs[r].nResolve = 0 /\ runs[r].nQuery = 0
            /\ runs[r].payCalls = <<>>
            /\ \A addr \in MarketAddrs : chain[addr] = OpenMarket
            /\ <<"Executor", "Market remains UNRESOLVED", "Neutral">> \in runs[r].logs
            /\ runs[r].ipfsTranscriptCid = NoCid
            /\ runs[r].transactionSignature = NoSig

\* Settle has finished a run that was still UNCERTAIN after the third round
C7_Witness ==
    /\ runs[1].pc = "done"
    /\ runs[1].decision = "UNCERTAIN"
    /\ runs[1].iterations = 3
    /\ runs[1].nExecutor = 1

\* C8: when the resolve call fails, Settle logs the error and does not call
\* resolve again, makes no stake query and no disbursement, and the run ends
\* Done: the failure does not raise out of the run.
C8_ResolveFailureStops ==
    \A r \in RunIds :
        runs[r].nResolve > 0 /\ runs[r].resolveError # "none" =>
            /\ runs[r].nResolve = 1
            /\ runs[r].nQuery = 0
            /\ runs[r].payCalls = <<>>
            /\ runs[r].distResult = <<>>
            /\ runs[r].pc = "done"
            /\ <<"Executor", "On-chain resolution failed", "Negative">> \in runs[r].logs
            /\ runs[r].transactionSignature = NoSig

\* the RPC of a resolve call failed and the run is Done
C8_Witness ==
    /\ runs[1].resolveError = "NetworkError"
    /\ runs[1].nResolve = 1
    /\ runs[1].pc = "done"

-----------------------------------------------------------------------------
(* Properties of the reward distribution (DistSpec) *)

\* the stake of the snapshot wins under the decision of the run
Wins(run, stake) == stake.direction = (run.decision = "YES")

CallsTo(run, user) == {i \in 1..Len(run.payCalls) : run.payCalls[i].user = user}

\* C9: YES goes to the ledger as outcome 1, NO as 0; the winners are exactly
\* the stakes of the snapshot whose direction is (outcome is YES); each winner
\* gets one disbursement of exactly twice its staked amount, a loser none.
C9_WinnersPaidTwice ==
    \A r \in RunIds :
        LET run == runs[r]
        IN  /\ run.nResolve > 0 =>
                 /\ run.decision = "YES" => run.resolveOutcome = 1
                 /\ run.decision = "NO" => run.resolveOutcome = 0
                 /\ run.resolveResult = "tx" =>
                       chain[run.resolveAddr].outcome = run.resolveOutcome
            /\ \A i \in 1..Len(run.payCalls) :
                 \E j \in 1..Len(run.snapshot) :
                    /\ run.snapshot[j].user = run.payCalls[i].user
                    /\ Wins(run, run.snapshot[j])
                    /\ run.payCalls[i].amount = 2 * run.snapshot[j].amount
            /\ \A j \in 1..Len(run.snapshot) :
                 /\ Cardinality(CallsTo(run, run.snapshot[j].user)) <= 1
                 /\ run.distResult # <<>> /\ Wins(run, run.snapshot[j]) =>
                       Cardinality(CallsTo(run, run.snapshot[j].user)) = 1

\* a YES run has paid the one winner of a snapshot that also holds a loser
C9_Witness ==
    /\ runs[1].pc = "done"
    /\ runs[1].decision = "YES"
    /\ runs[1].resolveResult = "tx"
    /\ chain[runs[1].resolveAddr].outcome = 1
    /\ Len(runs[1].snapshot) = 2
    /\ Len(runs[1].payCalls) = 1
    /\ runs[1].payCalls[1].amount = 6

\* C10: the counts a distribution returns satisfy distributed + failed = total,
\* with total the number of winning stakes of the snapshot, for every snapshot,
\* outcome and pattern of failed disbursements, an empty snapshot and a failed
\* stake query included.
C10_CountsAddUp ==
    \A r \in RunIds :
        runs[r].distResult # <<>> =>
            LET run == runs[r]
                result == run.distResult[1]
            IN  /\ result.distributed + result.failed = result.total
                /\ result.total =
                      Cardinality({j \in 1..Len(run.snapshot) : Wins(run, run.snapshot[j])})
                /\ result.distributed =
                      Cardinality({i \in 1..Len(run.payCalls) : run.payCalls[i].success})
                /\ result.failed =
                      Cardinality({i \in 1..Len(run.payCalls) : ~run.payCalls[i].success})

\* of the two winners of a snapshot one was paid, the other's disbursement failed
C10_Witness ==
    /\ runs[1].distResult = <<[distributed |-> 1, failed |-> 1, total |-> 2]>>
    /\ Len(runs[1].snapshot) = 2

\* the winning stakes of the snapshot of a run, in the snapshot's order
WinnersOf(run) == SelectSeq(run.snapshot, LAMBDA stake : Wins(run, stake))

FailedCalls(run) == {i \in 1..Len(run.payCalls) : ~run.payCalls[i].success}

\* C11: the disbursement calls of a run go to the winning stakes of the snapshot
\* one after another, one call each; a call that failed stays in the record as
\* failed, is not made again, takes back no earlier disbursement and does not stop
\* the calls to the winners after it. With five stakes, three Yes and two No,
\* outcome Yes and one failing call the counts are 2, 1, 3.
C11_OneCallPerWinner ==
    [][\A r \in RunIds :
          LET old == runs[r].payCalls
              new == runs'[r].payCalls
              run == runs'[r]
          IN  runs[r].pc # "idle" =>
                /\ Len(new) \in {Len(old), Len(old) + 1}
                /\ \A i \in 1..Len(old) : new[i] = old[i]
                /\ Len(new) <= Len(WinnersOf(run))
                /\ \A i \in 1..Len(new) : new[i].user = WinnersOf(run)[i].user
                /\ run.distResult # <<>> =>
                      /\ Len(new) = Len(WinnersOf(run))
                      /\ run.distResult[1].failed = Cardinality(FailedCalls(run))
                      /\ run.distResult[1].distributed =
                            Len(new) - Cardinality(FailedCalls(run))
                      /\ (run.snapshot = FiveStakes /\ run.decision = "YES"
                             /\ Cardinality(FailedCalls(run)) = 1) =>
                            run.distResult[1] =
                               [distributed |-> 2, failed |-> 1, total |-> 3]]_vars

\* of the three Yes stakes among five the second disbursement failed, the first
\* and the third went through
C11_Witness ==
    /\ runs[1].snapshot = FiveStakes
    /\ runs[1].decision = "YES"
    /\ Len(runs[1].payCalls) = 3
    /\ runs[1].payCalls[1].success
    /\ ~runs[1].payCalls[2].success
    /\ runs[1].payCalls[3].success
    /\ runs[1].distResult = <<[distributed |-> 2, failed |-> 1, total |-> 3]>>

-----------------------------------------------------------------------------
(* Properties of the runs of one market taken together (Spec) *)

\* the disbursements that went through, as run and position in its calls
PaidCalls ==
    {c \in RunIds \X (1..(MaxStakes + 3)) :
        /\ c[2] <= Len(runs[c[1]].payCalls)
        /\ runs[c[1]].payCalls[c[2]].success}

PaidCall(c) == runs[c[1]].payCalls[c[2]]

\* C12: over all the runs of a market no winner is paid twice: a stake gets at
\* most one disbursement that went through, so at most twice its amount; a
\* distribution run again over a snapshot already paid pays nothing.
C12_NoWinnerPaidTwice ==
    \A c1, c2 \in PaidCalls :
        (PaidCall(c1).user = PaidCall(c2).user /\ PaidCall(c1).market = PaidCall(c2).market)
            => c1 = c2

-----------------------------------------------------------------------------
(* Properties of the executor's side effects (RunSpec) *)

\* C13: for a YES or NO decision the executor pins the transcript first, then
\* makes one resolve call with the market address, the outcome and the digest of
\* the CID the pin returned, and distributes rewards only when that call
\* succeeded: no stake query or disbursement without a successful resolve of
\* the same run before it, and at most one resolve call per run.
C13_PinResolveDistribute ==
    \A r \in RunIds :
        LET run == runs[r]
        IN  /\ run.nPin <= 1 /\ run.nResolve <= 1 /\ run.nQuery <= 1
            /\ run.nPin > 0 => run.decision \in {"YES", "NO"}
            /\ run.nResolve > 0 =>
                  /\ run.nPin = 1
                  /\ run.transcriptCid # NoCid
                  /\ run.resolveDigest = <<"sha256", run.transcriptCid>>
                  /\ run.resolveOutcome = (IF run.decision = "YES" THEN 1 ELSE 0)
                  /\ run.resolveAddr =
                        (IF run.marketPda # "" THEN run.marketPda
                         ELSE findMarketPda(run.marketId))
            /\ (run.nQuery > 0 \/ run.payCalls # <<>>) =>
                  /\ run.nResolve = 1
                  /\ run.resolveError = "none"
                  /\ run.nQuery = 1

\* a NO run has pinned, resolved with the digest of the fallback CID and paid
C13_Witness ==
    /\ runs[1].decision = "NO"
    /\ runs[1].nPin = 1 /\ runs[1].nResolve = 1 /\ runs[1].nQuery = 1
    /\ runs[1].transcriptCid[1] = "bafkreig"
    /\ runs[1].resolveDigest = <<"sha256", runs[1].transcriptCid>>
    /\ runs[1].resolveResult = "tx"
    /\ Len(runs[1].payCalls) = 1

\* the resolve call of the run came back with success
ResolveSucceeded(run) == run.resolveResult \in {"tx", "sim"}

\* C14: a failure inside the reward distribution never fails the run: whatever
\* the distribution meets (failed disbursements, a failed stake query, an
\* exception out of the distribution), a run whose resolve succeeded does not
\* end in an error, gets to Done, and returns the transcript CID and the
\* signature of the resolve.
C14_DistributionNeverFailsRun ==
    /\ [](\A r \in RunIds :
            ResolveSucceeded(runs[r]) =>
               /\ runs[r].pc \in {"query", "pay", "done"}
               /\ runs[r].pc = "done" =>
                     /\ runs[r].ipfsTranscriptCid = runs[r].transcriptCid
                     /\ runs[r].ipfsTranscriptCid # NoCid
                     /\ runs[r].transactionSignature = runs[r].resolveResult)
    /\ \A r \in RunIds :
          ResolveSucceeded(runs[r]) ~> (runs[r].pc = "done")

\* deriving the address for the distribution threw after a resolve that went
\* through, and the run is Done with its CID and signature
C14_Witness ==
    /\ runs[1].marketId = LongMarketId
    /\ runs[1].resolveResult = "tx"
    /\ <<"Executor", "Reward distribution error", "Negative">> \in runs[1].logs
    /\ runs[1].pc = "done"
    /\ runs[1].transactionSignature = "tx"
    /\ runs[1].ipfsTranscriptCid # NoCid

-----------------------------------------------------------------------------
(* Properties of the judge and the researcher (RunSpec) *)

\* C15: the decision the judge returns is always YES, NO or UNCERTAIN; it is
\* UNCERTAIN whenever the generation ended in its terminal error, the response
\* did not parse, or the parsed response has no decision: a failed or malformed
\* generation never gives YES or NO.
C15_DecisionThreeValued ==
    \A r \in RunIds :
        runs[r].nJudge > 0 =>
            LET reply == runs[r].judgment[1]
            IN  /\ runs[r].decision \in {"YES", "NO", "UNCERTAIN"}
                /\ (reply.kind # "json" \/ reply.decision = Undefined) =>
                      runs[r].decision = "UNCERTAIN"

\* C16: a Research pass whose generation ended in the terminal error or whose
\* response did not parse returns exactly one 'unable to verify' fact with
\* confidence 0, logs the failure, and the run goes on to the judge.
C16_ResearchFailureDegrades ==
    [][\A r \in RunIds :
          ResearchReturns(r) =>
             /\ runs'[r].pc = "judge"
             /\ runs'[r].nResearch = runs[r].nResearch + 1
             /\ runs'[r].research[1].kind # "json" =>
                   /\ runs'[r].facts = <<"Unable to verify facts due to agent error.">>
                   /\ runs'[r].factConfidences = <<0>>
                   /\ <<"System", "Research Error", "Negative">> \in runs'[r].logs]_vars

\* after a Research pass that did not parse the run is at the judge with the one
\* fact
C16_Witness ==
    /\ runs[1].pc = "judge"
    /\ runs[1].nResearch = 1
    /\ runs[1].research[1].kind = "unparseable"
    /\ Len(runs[1].facts) = 1
    /\ runs[1].factConfidences = <<0>>

\* C17: after every Research pass the fact list and the confidence list have the
\* same length, every confidence is in 0..100, and a fact the generation left
\* unscored has confidence 70.
C17_FactsAndConfidencesParallel ==
    \A r \in RunIds :
       runs[r].nResearch > 0 =>
          /\ Len(runs[r].factConfidences) = Len(runs[r].facts)
          /\ \A i \in 1..Len(runs[r].factConfidences) :
                runs[r].factConfidences[i] \in 0..100
          /\ (runs[r].research[1].kind = "json" /\ ~runs[r].research[1].hasConf) =>
                \A i \in 1..Len(runs[r].factConfidences) :
                   runs[r].factConfidences[i] = 70

\* the transcript pin of run r fell back to the mock CID
PinFellBack(r) == runs[r].nPin = 1 /\ runs[r].pinOutcome \in {"noclient", "throws"}

\* C18: when the content store is not configured or throws, the CID and the
\* digest of the transcript depend on the bundle only: two pins of equal bundles
\* give equal fallback CIDs and equal digests, however each pin failed.
C18_FallbackDeterministic ==
    \A r1, r2 \in RunIds :
       (/\ PinFellBack(r1)
        /\ PinFellBack(r2)
        /\ TranscriptBundle(runs[r1]) = TranscriptBundle(runs[r2])) =>
          /\ runs[r1].transcriptCid = runs[r2].transcriptCid
          /\ runs[r1].ipfsHash = runs[r2].ipfsHash
          /\ runs[r1].transcriptCid # NoCid
          /\ runs[r1].ipfsHash # <<>>

\* two runs pinned equal bundles, one without a client and one whose store threw
C18_Witness ==
    /\ PinFellBack(1)
    /\ PinFellBack(2)
    /\ runs[1].pinOutcome = "noclient"
    /\ runs[2].pinOutcome = "throws"
    /\ TranscriptBundle(runs[1]) = TranscriptBundle(runs[2])

-----------------------------------------------------------------------------
(* Properties of the pins (PinSpec) *)

\* C19: pinning never blocks settlement: a run with a YES or NO decision at the
\* transcript pin goes on to the ledger resolve call whether the store stored,
\* was not configured or threw, at the transcript pin and at the metadata pin
\* alike; of a run whose market address is a public key no pin ends in an error.
C19_PinNeverBlocks ==
    /\ [](\A r \in RunIds :
            (runs[r].nPin > 0 /\ ResolveAddress(runs[r]) # "invalid") =>
               /\ runs[r].pc # "error"
               /\ runs[r].transcriptCid # NoCid)
    /\ \A r \in RunIds :
          (runs[r].pc = "pin" /\ ResolveAddress(runs[r]) # "invalid")
             ~> (runs[r].nResolve = 1 /\ runs[r].decision \in {"YES", "NO"})

\* the store threw at both pins and the resolve call was made
C19_Witness ==
    /\ runs[1].pinOutcome = "throws"
    /\ runs[1].metaOutcome = "throws"
    /\ runs[1].nResolve = 1
    /\ runs[1].resolveDigest = <<"sha256", runs[1].transcriptCid>>

-----------------------------------------------------------------------------
(* Properties of the generation client (GenSpec) *)

\* the fetches of a call that failed otherwise than by 429
OtherFailures(generation) ==
    Cardinality({i \in 1..Len(generation.responses) :
                    generation.responses[i] \in {"notok", "nocandidates"}})

\* C20: in one call of the generation client a 429 response does not use up the
\* retry budget: the call ends in its terminal error only after three fetches
\* that failed otherwise, however many 429 responses it met, and 429 responses
\* alone never end it in the terminal error.
C20_QuotaKeepsBudget ==
    \A r \in RunIds :
       runs[r].generation.state = "threw" =>
          OtherFailures(runs[r].generation) = Retries

\* the fetches of a call that came back with candidates
Successes(generation) ==
    {i \in 1..Len(generation.responses) : generation.responses[i] = "ok"}

\* C21: a call of the generation client never raises while attempts remain: it
\* makes at most three fetches, returns at the first successful response, and
\* raises its terminal error only when three fetches have failed.
C21_RaisesOnlyWhenExhausted ==
    \A r \in RunIds :
       LET generation == runs[r].generation
           fetches == Len(generation.responses)
       IN  /\ fetches <= Retries
           /\ generation.state = "fetching" =>
                 fetches < Retries /\ Successes(generation) = {}
           /\ generation.state = "returned" => Successes(generation) = {fetches}
           /\ generation.state = "threw" =>
                 fetches = Retries /\ Successes(generation) = {}

\* a call returned at its third fetch, after a failed status and a response
\* without candidates
C21_Witness ==
    /\ runs[1].generation.state = "returned"
    /\ runs[1].generation.responses = <<"notok", "nocandidates", "ok">>

-----------------------------------------------------------------------------
(* Properties of the reconsideration (ReconSpec) *)

\* the Analyze step of the call failed or found no fact
AnalysisEmpty(session) ==
    /\ session.analysis # <<>>
    /\ \/ session.analysis[1].kind # "json"
       \/ session.analysis[1].facts \in {"absent", "none"}

\* C22: a reconsideration whose Analyze step yields zero facts or fails (a
\* generation error or unparseable output) has the recommendation UPHOLD and
\* the new outcome UNCHANGED in its result.
C22_UpholdWithoutFacts ==
    \A q \in ReconIds :
       (reconsiderations[q].pc = "done" /\ AnalysisEmpty(reconsiderations[q])) =>
          /\ reconsiderations[q].result[1].recommendation = "UPHOLD"
          /\ reconsiderations[q].result[1].newOutcome = "UNCHANGED"

\* a step of a processReconsideration call
ReconsiderationStep ==
    \/ reconsiderations' # reconsiderations
    \/ reconsiderationLogs' # reconsiderationLogs

\* C23: a reconsideration, whatever it recommends, changes neither the ledger
\* nor the market state: its steps make no resolve and no disbursement call,
\* leave every market account, stake and tracked market as they are, and only
\* add reconsideration log entries and produce the advisory result.
C23_ReconsiderationAdvisoryOnly ==
    [][ReconsiderationStep =>
          /\ UNCHANGED <<chain, stakes, program, logStore>>
          /\ UNCHANGED <<activeMarkets, scheduledResolutions, timers, logStore>>
          /\ UNCHANGED runs
          /\ Len(reconsiderationLogs') > 0]_vars

\* a reconsideration recommended OVERTURN of a market the ledger holds resolved
\* as YES, and the ledger still holds it so
C23_Witness ==
    /\ reconsiderations[1].pc = "done"
    /\ reconsiderations[1].marketId = "m1"
    /\ reconsiderations[1].result[1].recommendation = "OVERTURN"
    /\ reconsiderations[1].result[1].newOutcome = "NO"
    /\ chain["pda1"].status = "Resolved"
    /\ chain["pda1"].outcome = 1

\* C24: the reconsideration workflow is a pipeline of two nodes without a loop:
\* every call enters Analyze once, then the Reconsideration Judge once, then is
\* Done, and it gets there for every outcome of the two generation calls.
C24_TwoNodePipeline ==
    /\ [](\A q \in ReconIds :
            LET session == reconsiderations[q]
            IN  /\ session.pc \in {"idle", "analyze", "judge", "done"}
                /\ session.pc = "analyze" => session.nAnalyze = 1 /\ session.nJudge = 0
                /\ session.pc \in {"judge", "done"} =>
                      session.nAnalyze = 1 /\ session.nJudge = 1
                /\ session.pc = "done" <=> session.result # <<>>)
    /\ \A q \in ReconIds :
          (reconsiderations[q].pc = "analyze") ~> (reconsiderations[q].pc = "done")

-----------------------------------------------------------------------------
(* Properties of the evidence store (EvidenceSpec) *)

\* sequence s is the beginning of sequence t
IsPrefix(s, t) == Len(s) <= Len(t) /\ \A i \in 1..Len(s) : s[i] = t[i]

\* C25: the evidence list of a market is append-only: no API operation
\* (evidence submission, market-created notification, resolve trigger,
\* schedule, cancel) removes a submitted item or makes the list shorter.
C25_EvidenceAppendOnly ==
    [][\A m \in MarketIds :
          IsPrefix(activeMarkets[m].evidence, activeMarkets'[m].evidence)]_vars

\* run r starts its first Research pass in this step
StartsResearch(r) ==
    runs[r].pc \in {"idle", "fetch"} /\ runs'[r].pc = "researcher"

\* C26: every resolution run, whether POST /resolve or a fired scheduled
\* resolution started it, begins its first Research pass with all the evidence
\* stored for the market, in order and before the evidence of the trigger.
C26_StoredEvidenceReachesResearch ==
    [][\A r \in RunIds :
          StartsResearch(r) =>
             \E given \in RequestEvidence :
                runs'[r].evidenceUrls =
                   EvidenceFromStorage(activeMarkets[runs'[r].marketId].evidence) \o given]_vars

\* the entries a run has appended, as their places in logStore.appended
EntriesOf(r) == {i \in 1..Len(logStore.appended) : logStore.appended[i].run = r}

\* C27: every log entry appended by a run resolving market M is recorded in M's
\* per-market log view and in no other market's view, whatever other runs start
\* or finish meanwhile
C27_EntriesInOwnMarketView ==
    \A r \in RunIds : \A i \in EntriesOf(r) :
        logStore.appended[i].market = runs[r].marketId

\* the last n elements of a sequence
Last(seq, n) == SubSeq(seq, Len(seq) - n + 1, Len(seq))
\* the trailing window of at most limit elements
Window(seq, limit) == Last(seq, IF Len(seq) < limit THEN Len(seq) ELSE limit)
\* every entry appended so far, in the order of the addGlobalLog calls
AllEntries == [i \in 1..Len(logStore.appended) |-> i]
\* the entries pushed on the log of market m, in the order of the calls
EntriesFor(m) == SelectSeq(AllEntries, LAMBDA i : logStore.appended[i].market = m)

Cancels(t) ==
    /\ \E m \in Markets : scheduledResolutions[m] = t /\ scheduledResolutions'[m] = 0
    /\ runs' = runs
\* the runs the timer callbacks have started
TimerRuns == {r \in RunIds : runs[r].pc # "idle" /\ runs[r].source = "timer"}
FiredTimers == {t \in TimerIds : timers[t].state = "fired"}

ReportsFailure(run, speakers) ==
    \E entry \in run.logs : entry[1] \in speakers /\ entry[3] = "Negative"

\* the stake query of the run failed: it gave no stakes where the market has some
QueryFailed(run) ==
    run.nQuery > 0 /\ Len(run.snapshot) = 0 /\ Len(stakes[run.distAddr]) > 0

\* C30: no failure is silently swallowed: a finished run in which a generation
\* or parse failed, the store threw at a pin, the stake query failed, the ledger
\* rejected the resolve or a disbursement failed has a log entry that reports a
\* failure, with its speaker and a negative sentiment
C30_FailuresLogged ==
    \A r \in RunIds :
        LET run == runs[r]
        IN  run.pc \in {"done", "error"} =>
              /\ (run.research # <<>> /\ run.research[1].kind # "json") =>
                    <<"System", "Research Error", "Negative">> \in run.logs
              /\ (run.judgment # <<>> /\ JudgeThrows(run.judgment[1])) =>
                    <<"Judge", "Error rendering verdict", "Negative">> \in run.logs
              /\ run.resolveResult = "failed" =>
                    <<"Executor", "On-chain resolution failed", "Negative">> \in run.logs
              /\ run.failed > 0 =>
                    <<"Executor", "reward distribution(s) failed", "Negative">> \in run.logs
              /\ (run.pinOutcome = "throws" \/ run.metaOutcome = "throws" \/ QueryFailed(run)) =>
                    ReportsFailure(run, {"Executor", "System"})

\* the timers that are set for market m and have neither fired nor been cleared
PendingTimers(m) == {t \in TimerIds : timers[t].state = "pending" /\ timers[t].marketId = m}

\* C31: after any interleaving of schedule and cancel requests, at most one
\* timer is pending for a market, and the pending timer is the one recorded in
\* scheduledResolutions, so that a cancel request reaches it
C31_OnePendingTimerRecorded ==
    \A m \in Markets :
        /\ Cardinality(PendingTimers(m)) <= 1
        /\ \A t \in PendingTimers(m) : scheduledResolutions[m] = t

\* the step at which run r's resolveMarket call returns success to the executor
ReportsResolved(r) ==
    /\ runs[r].pc = "resolve"
    /\ runs'[r].resolveResult \notin {"none", "failed"}

\* C32: the executor reports a market as resolved on-chain (success result, the
\* 'MARKET RESOLVED ON-CHAIN' entry, a signature) only if the resolve call of
\* that run committed a resolve transaction for that market on the ledger
C32_ResolvedOnlyIfCommitted ==
    [][\A r \in RunIds :
          ReportsResolved(r) =>
             LET addr == runs[r].resolveAddr
             IN  /\ addr \in MarketAddrs
                 /\ chain[addr].status = "Open"
                 /\ chain'[addr] = LedgerResolved(runs'[r].resolveOutcome,
                                                  runs'[r].resolveDigest)]_vars

\* C33: within one run the address whose stakes are queried and paid equals the
\* address passed to the ledger resolve call, whether or not the trigger gave a
\* market address
C33_SameAddressResolvedAndPaid ==
    \A r \in RunIds :
        runs[r].distAddr # "" => runs[r].distAddr = runs[r].resolveAddr

\* C34: the confidence the Judge consumes for each fact is the confidence the
\* Research pass produced for it, 70 only for a fact without a score; the
\* zero-confidence fact of a failed Research pass reaches the Judge with 0
C34_JudgeGetsResearchConfidences ==
    \A r \in RunIds :
        (runs[r].nJudge > 0 /\ runs[r].nJudge = runs[r].nResearch) =>
            /\ Len(runs[r].promptConfidences) = Len(runs[r].facts)
            /\ \A i \in 1..Len(runs[r].facts) :
                  runs[r].promptConfidences[i] =
                     IF i <= Len(runs[r].factConfidences)
                     THEN runs[r].factConfidences[i]
                     ELSE 70

\* a run of market m has had its outcome committed by a successful resolve call
ResolvedByRun(m) ==
    \E r \in RunIds :
        /\ runs[r].marketId = m
        /\ runs[r].pc = "done"
        /\ runs[r].resolveResult \notin {"none", "failed"}

\* C35: the tracked status of a market is 'researching' only while a resolution
\* run for it is in flight, and it is 'resolved' once a run for it has finished
\* with a successful ledger resolve
C35_StatusFollowsLifecycle ==
    \A m \in MarketIds :
        /\ activeMarkets[m].status = "researching" =>
              \E r \in InFlight : runs[r].marketId = m
        /\ (activeMarkets[m].tracked /\ ResolvedByRun(m)) =>
              activeMarkets[m].status = "resolved"

\* the entries processReconsideration call q appends from its start to its
\* return, given the replies its two nodes got
EntriesOfCall(q) ==
    addLog(<<>>, q,
           <<<<"System", "Reconsideration request received", "Neutral">>,
             <<"Researcher", "Analyzing new evidence", "Neutral">>,
             IF reconsiderations[q].analysis[1].kind = "json"
             THEN <<"Researcher", "Found new facts", "Neutral">>
             ELSE <<"System", "Evidence analysis error", "Negative">>,
             <<"Judge", "Evaluating reconsideration request", "Neutral">>>>
           \o JudgeEntries(reconsiderations[q].judgment[1]))

\* C36: the logs in the result of a reconsideration request are exactly the
\* entries appended while processing that request, whatever other requests
\* start meanwhile
C36_ResultLogsAreOwnEntries ==
    \A q \in ReconIds :
        reconsiderations[q].pc = "done" =>
            reconsiderations[q].result[1].logs = EntriesOfCall(q)

\* the outcome that is not the given one
Opposite(outcome) == IF outcome = "YES" THEN "NO" ELSE "YES"

\* C37: in every reconsideration result the recommendation is UPHOLD, ANNOTATE
\* or OVERTURN; newOutcome is the opposite of originalOutcome exactly when the
\* recommendation is OVERTURN and UNCHANGED otherwise; confidenceChange is 0 for
\* UPHOLD and lies in -100..100
C37_ResultWellFormed ==
    \A q \in ReconIds :
        reconsiderations[q].pc = "done" =>
            LET result == reconsiderations[q].result[1]
            IN  /\ result.recommendation \in {"UPHOLD", "ANNOTATE", "OVERTURN"}
                /\ result.newOutcome =
                      IF result.recommendation = "OVERTURN"
                      THEN Opposite(result.originalOutcome)
                      ELSE "UNCHANGED"
                /\ result.recommendation = "UPHOLD" => result.confidenceChange = 0
                /\ result.confidenceChange \in -100..100

\* the Judge's generation raised, gave unparseable output or gave no recommendation
JudgmentFailed(reply) ==
    \/ reply.kind \in {"error", "unparseable", "null"}
    \/ reply.recommendation = Undefined

\* C38: when the Reconsideration Judge's generation raises a terminal error,
\* returns unparseable output or returns no recommendation, the result is
\* UPHOLD with newOutcome UNCHANGED and confidenceChange 0, and the result's log
\* has an entry of the Judge that records the failure
C38_JudgeFailureUpholds ==
    \A q \in ReconIds :
        (reconsiderations[q].pc = "done" /\ JudgmentFailed(reconsiderations[q].judgment[1])) =>
            LET result == reconsiderations[q].result[1]
            IN  /\ result.recommendation = "UPHOLD"
                /\ result.newOutcome = "UNCHANGED"
                /\ result.confidenceChange = 0
                /\ \E i \in 1..Len(result.logs) :
                      /\ result.logs[i][1] = q
                      /\ result.logs[i][2] = "Judge"
                      /\ result.logs[i][4] = "Negative"

\* C39: in the result of a finished run the transcript CID and the transaction
\* signature are both non-empty or both empty, and they are non-empty exactly
\* when the run's ledger resolve call succeeded
C39_CidAndSignatureTogether ==
    \A r \in RunIds :
        runs[r].pc \in {"done", "error"} =>
            /\ (runs[r].ipfsTranscriptCid # NoCid) <=> (runs[r].transactionSignature # NoSig)
            /\ (runs[r].transactionSignature # NoSig) <=> ResolveSucceeded(runs[r])

\* a run pinned its transcript, its resolve call failed, and it returned
\* neither the CID nor a signature
C39_Witness ==
    \E r \in RunIds :
        /\ runs[r].pc = "done"
        /\ runs[r].transcriptCid # NoCid
        /\ runs[r].resolveResult = "failed"
        /\ runs[r].ipfsTranscriptCid = NoCid
        /\ runs[r].transactionSignature = NoSig

====
